---- MODULE Spec2Model ----
(***************************************************************************)
(* pythonicfmt: Formatter::format (src/formatter.rs) driven by             *)
(* process_pipe (src/main.rs).                                             *)
(*                                                                         *)
(* A text buffer is a sequence of one-character strings.  Rust indexes     *)
(* from 0, TLA+ sequences from 1: index, idx and every offset below keep   *)
(* the Rust (0-based) value, and lines[i + 1] reads Rust's lines[i].       *)
(* All characters of the model are one byte wide, so byte offsets (what    *)
(* regex::Match::start and String::replace_range use) are character        *)
(* offsets.                                                                *)
(***************************************************************************)
EXTENDS Integers, Sequences, FiniteSets, TLC

VARIABLES
    input,                   \* what pipe_in delivers (main.rs:110)
    content,                 \* the &mut String handed to format
    junk_column,             \* Formatter.junk_column
    lines,                   \* format's `lines` vector
    index,                   \* collapse_lines' loop index
    idx,                     \* format's reverse loop index / process_line's idx
    prev_line_modification,  \* process_line's Option<String>: <<>> or <<s>>
    pc,                      \* position in format
    failure,                 \* the panic that ended the call, "none" otherwise
    calls,                   \* number of format calls started on this buffer
    first_output             \* content after the first completed call

vars == <<input, content, junk_column, lines, index, idx,
          prev_line_modification, pc, failure, calls, first_output>>

(***************************************************************************)
(* Bounds of the model.                                                    *)
(***************************************************************************)
MaxLen == 5
MaxJunkColumn == 2

(***************************************************************************)
(* Program constants.                                                      *)
(***************************************************************************)
DefaultJunkColumn == 120

JUNK_CHARS == {"{", "}", ";"}

\* What the regex class \s matches among the characters used here.
WS_CHARS == {" ", "\t", "\n", "\r", "\f"}

IsWs(c) == c \in WS_CHARS

IsJunk(c) == c \in JUNK_CHARS

IsJunkOrWs(c) == IsJunk(c) \/ IsWs(c)

None == <<>>

Some(s) == <<s>>

\* " ".repeat(n)
Repeat(n) == [i \in 1..n |-> " "]

\* WS_REGEX.replace_all(s, "")
ReplaceAllWs(s) == SelectSeq(s, LAMBDA c : ~IsWs(c))

(***************************************************************************)
(* str::lines(): the buffer is cut after every "\n"; the "\n" and a "\r"   *)
(* right before it are dropped; what follows the last "\n" is a line only  *)
(* when it is not empty.                                                   *)
(***************************************************************************)
\* The definitions below avoid recursion over the characters of a line: lines
\* padded to the default column are over a hundred characters long.
Min(S) == CHOOSE x \in S : \A y \in S : x <= y

StripCr(s) ==
    IF Len(s) > 0 /\ s[Len(s)] = "\r" THEN SubSeq(s, 1, Len(s) - 1) ELSE s

\* positions (1-based) of the line feeds of s
LineFeeds(s) == {i \in 1..Len(s) : s[i] = "\n"}

\* position of the k-th line feed of s; 0 for k = 0
LineFeed(s, k) ==
    IF k = 0 THEN 0
    ELSE CHOOSE p \in LineFeeds(s) :
             Cardinality({q \in LineFeeds(s) : q <= p}) = k

\* str::split('\n') in place of str::lines(): keeps the empty piece after a
\* final "\n", and every "\r"
StrLinesAsSplit(s) ==
    LET n == Cardinality(LineFeeds(s))
    IN [k \in 1..(n + 1) |->
          SubSeq(s, LineFeed(s, k - 1) + 1,
                 IF k <= n THEN LineFeed(s, k) - 1 ELSE Len(s))]

StrLines(s) ==
    LET n == Cardinality(LineFeeds(s))
        last == LineFeed(s, n)
        terminated == [k \in 1..n |->
            StripCr(SubSeq(s, LineFeed(s, k - 1) + 1, LineFeed(s, k) - 1))]
    IN IF last < Len(s)
       THEN Append(terminated, SubSeq(s, last + 1, Len(s)))
       ELSE terminated

\* lines.join("\n")
RECURSIVE Join(_)
Join(ls) ==
    IF Len(ls) = 0 THEN <<>>
    ELSE IF Len(ls) = 1 THEN ls[1]
    ELSE (ls[1] \o <<"\n">>) \o Join(Tail(ls))

(***************************************************************************)
(* START_JUNK_WS_REGEX: leading whitespace (one or more), then group 1 =   *)
(* a junk character followed by any number of junk/whitespace characters.  *)
(* \s+ has to take the whole leading whitespace run, since the character   *)
(* after it must be junk.  Group 1 is the greedy junk/whitespace run that  *)
(* starts at that junk character: offsets [StartGroupBegin, StartGroupEnd).*)
(***************************************************************************)
\* offset of the first character at or after offset `from` that is not whitespace
WsRunEnd(s, from) ==
    Min({i \in from..Len(s) : i = Len(s) \/ ~IsWs(s[i + 1])})

\* offset of the first character at or after `from` that is neither junk nor
\* whitespace
JunkWsRunEnd(s, from) ==
    Min({i \in from..Len(s) : i = Len(s) \/ ~IsJunkOrWs(s[i + 1])})

StartGroupBegin(line) == WsRunEnd(line, 0)

StartMatches(line) ==
    LET k == StartGroupBegin(line)
    IN k >= 1 /\ k < Len(line) /\ IsJunk(line[k + 1])

StartGroupEnd(line) == JunkWsRunEnd(line, StartGroupBegin(line))

\* line.replace_range(range, with)
ReplaceRange(line, from, to, with) ==
    (SubSeq(line, 1, from) \o with) \o SubSeq(line, to + 1, Len(line))

\* replace_range over the whole match (from offset 0) instead of group 1
StartRemoveWholeMatch(line) ==
    ReplaceRange(line, 0, StartGroupEnd(line), <<>>)

\* replace_range over group 1 extended by one character
StartRemoveOneMore(line) ==
    LET e == StartGroupEnd(line)
    IN ReplaceRange(line, StartGroupBegin(line),
                    IF e < Len(line) THEN e + 1 ELSE e, <<>>)

\* line.replace_range(junk_and_ws.range(), "")
StartRemove(line) ==
    ReplaceRange(line, StartGroupBegin(line), StartGroupEnd(line), <<>>)

\* WS_REGEX.replace_all(junk_and_ws.as_str(), "") on group 1
StartJunkStr(line) ==
    ReplaceAllWs(SubSeq(line, StartGroupBegin(line) + 1, StartGroupEnd(line)))

(***************************************************************************)
(* END_JUNK_WS_REGEX: one or more junk/whitespace characters, then the end *)
(* of the text.                                                            *)
(* The leftmost match is the maximal junk/whitespace run that reaches the  *)
(* end of the line; it starts at offset EndMatchStart.                     *)
(***************************************************************************)
EndMatchStart(line) ==
    Min({n \in 0..Len(line) : \A j \in (n + 1)..Len(line) : IsJunkOrWs(line[j])})

EndMatches(line) == EndMatchStart(line) < Len(line)

EndJunkStr(line) ==
    ReplaceAllWs(SubSeq(line, EndMatchStart(line) + 1, Len(line)))

\* junk_column - size_before - 1, saturating
SpaceCountOffByOne(col, size_before) ==
    IF col > size_before + 1 THEN col - size_before - 1 ELSE 0

\* self.junk_column.saturating_sub(size_before)
SpaceCount(col, size_before) ==
    IF col > size_before THEN col - size_before ELSE 0

\* line.replace_range(size_before.., pad + junk_str)
EndReposition(line, col) ==
    LET size_before == EndMatchStart(line)
    IN (SubSeq(line, 1, size_before)
          \o Repeat(SpaceCount(col, size_before))) \o EndJunkStr(line)

(***************************************************************************)
(* collapse_lines' test of one line                                        *)
(***************************************************************************)
\* the test without `!line_without_ws.is_empty()`: all() holds of no characters
IsJunkLineNoEmptyCheck(line) ==
    \A i \in 1..Len(ReplaceAllWs(line)) : IsJunk(ReplaceAllWs(line)[i])

IsJunkLine(line) ==
    LET line_without_ws == ReplaceAllWs(line)
    IN /\ line_without_ws # <<>>
       /\ \A i \in 1..Len(line_without_ws) : IsJunk(line_without_ws[i])

\* lines.remove(index)
Remove(ls, i) == SubSeq(ls, 1, i) \o SubSeq(ls, i + 2, Len(ls))

(***************************************************************************)
(* Inputs                                                                  *)
(***************************************************************************)
Alphabet == {"a", "b", " ", "{", ";", "\n"}

RECURSIVE SeqsUpTo(_)
SeqsUpTo(n) ==
    IF n = 0 THEN {<<>>}
    ELSE LET shorter == SeqsUpTo(n - 1)
         IN shorter \cup {Append(s, c) : s \in {t \in shorter : Len(t) = n - 1},
                                          c \in Alphabet}

Inputs == SeqsUpTo(MaxLen)

\* the documented example buffers, formatted with the default column
Scenario1Input == <<"f", "o", "o", "\n", "{", "\n">>

Scenario2Input == <<"a", ";", "\n", "b", ";", "\n">>

ScenarioInputs == {Scenario1Input, Scenario2Input}

Init ==
    /\ \/ input \in Inputs /\ junk_column \in 0..MaxJunkColumn
       \/ input \in ScenarioInputs /\ junk_column = DefaultJunkColumn
    /\ content = input
    /\ lines = <<>>
    /\ index = 0
    /\ idx = 0
    /\ prev_line_modification = None
    /\ pc = "lines"
    /\ failure = "none"
    /\ calls = 1
    /\ first_output = <<>>

Panic(kinds) ==
    /\ pc' = "panic"
    /\ failure' \in kinds

(***************************************************************************)
(* format, lines 42-46: split the buffer and enter collapse_lines          *)
(***************************************************************************)
Lines ==
    /\ pc = "lines"
    /\ lines' = StrLines(content)
    /\ index' = 1
    /\ pc' = "collapse"
    /\ UNCHANGED <<input, content, junk_column, idx, prev_line_modification,
                   failure, calls, first_output>>

\* one iteration of collapse_lines' while loop
CollapseStep ==
    /\ pc = "collapse"
    /\ index < Len(lines)
    /\ IF IsJunkLine(lines[index + 1])
       THEN /\ lines' = Remove([lines EXCEPT ![index] =
                                   @ \o ReplaceAllWs(lines[index + 1])], index)
            /\ index' = (index - 1) + 1
       ELSE /\ lines' = lines
            /\ index' = index + 1
    /\ UNCHANGED <<input, content, junk_column, idx, prev_line_modification,
                   pc, failure, calls, first_output>>

\* the while condition fails: collapse_lines returns
CollapseExit ==
    /\ pc = "collapse"
    /\ index >= Len(lines)
    /\ pc' = "pass2"
    /\ UNCHANGED <<input, content, junk_column, lines, index, idx,
                   prev_line_modification, failure, calls, first_output>>

(***************************************************************************)
(* format, line 48: idx = lines.len() - 1.  With no lines the subtraction  *)
(* underflows: a build with overflow checks panics there; a build without  *)
(* them wraps idx to usize::MAX and process_line's lines[idx] panics.      *)
(***************************************************************************)
Pass2Begin ==
    /\ pc = "pass2"
    /\ IF Len(lines) = 0
       THEN /\ Panic({"subtract_overflow", "index_out_of_bounds"})
            /\ idx' = idx
       ELSE /\ idx' = Len(lines) - 1
            /\ pc' = "pl_start"
            /\ failure' = failure
    /\ UNCHANGED <<input, content, junk_column, lines, index,
                   prev_line_modification, calls, first_output>>

\* process_line, lines 63-71
StartOfLine ==
    /\ pc = "pl_start"
    /\ LET line == lines[idx + 1]
       IN IF StartMatches(line)
          THEN /\ lines' = [lines EXCEPT ![idx + 1] = StartRemove(line)]
               /\ prev_line_modification' = Some(StartJunkStr(line))
          ELSE /\ lines' = lines
               /\ prev_line_modification' = None
    /\ pc' = "pl_end"
    /\ UNCHANGED <<input, content, junk_column, index, idx, failure, calls,
                   first_output>>

\* process_line, lines 73-85; the `return` of line 77 leaves process_line
EndOfLine ==
    /\ pc = "pl_end"
    /\ LET line == lines[idx + 1]
       IN IF EndMatches(line)
          THEN IF EndJunkStr(line) = <<>>
               THEN /\ lines' = lines
                    /\ prev_line_modification' = None
                    /\ pc' = "loop"
               ELSE /\ lines' = [lines EXCEPT ![idx + 1] =
                                    EndReposition(line, junk_column)]
                    /\ prev_line_modification' = prev_line_modification
                    /\ pc' = "pl_append"
          ELSE /\ lines' = lines
               /\ prev_line_modification' = prev_line_modification
               /\ pc' = "pl_append"
    /\ UNCHANGED <<input, content, junk_column, index, idx, failure, calls,
                   first_output>>

(***************************************************************************)
(* process_line, lines 87-89: lines[idx - 1] += modification.  At idx = 0  *)
(* the subtraction underflows: panic there, or wrap and panic on the index.*)
(***************************************************************************)
PrevLineAppend ==
    /\ pc = "pl_append"
    /\ IF prev_line_modification # None
       THEN IF idx = 0
            THEN /\ Panic({"subtract_overflow", "index_out_of_bounds"})
                 /\ lines' = lines
            ELSE /\ lines' = [lines EXCEPT ![idx] =
                                 @ \o prev_line_modification[1]]
                 /\ pc' = "loop"
                 /\ failure' = failure
       ELSE /\ lines' = lines
            /\ pc' = "loop"
            /\ failure' = failure
    /\ prev_line_modification' = None
    /\ UNCHANGED <<input, content, junk_column, index, idx, calls,
                   first_output>>

\* format, lines 51-54
LoopNext ==
    /\ pc = "loop"
    /\ IF idx = 0
       THEN /\ pc' = "join"
            /\ idx' = idx
       ELSE /\ idx' = idx - 1
            /\ pc' = "pl_start"
    /\ UNCHANGED <<input, content, junk_column, lines, index,
                   prev_line_modification, failure, calls, first_output>>

\* format, lines 57-59
JoinLines ==
    /\ pc = "join"
    /\ content' = Join(lines)
    /\ pc' = "done"
    /\ UNCHANGED <<input, junk_column, lines, index, idx,
                   prev_line_modification, failure, calls, first_output>>

\* the same formatter is applied once more to the buffer it has formatted
FormatAgain ==
    /\ pc = "done"
    /\ calls = 1
    /\ calls' = 2
    /\ first_output' = content
    /\ pc' = "lines"
    /\ UNCHANGED <<input, content, junk_column, lines, index, idx,
                   prev_line_modification, failure>>

Next ==
    \/ Lines
    \/ CollapseStep
    \/ CollapseExit
    \/ Pass2Begin
    \/ StartOfLine
    \/ EndOfLine
    \/ PrevLineAppend
    \/ LoopNext
    \/ JoinLines
    \/ FormatAgain

Spec == Init /\ [][Next]_vars

(***************************************************************************)
(* Vocabulary of the properties                                            *)
(***************************************************************************)
\* the characters that are neither whitespace nor junk, in order
Meaningful(s) == SelectSeq(s, LAMBDA c : ~IsJunkOrWs(c))

\* the junk characters, in order
JunkOf(s) == SelectSeq(s, LAMBDA c : IsJunk(c))

HasJunk(s) == JunkOf(s) # <<>>

\* only junk and whitespace, with at least one junk character
JunkOnly(s) == HasJunk(s) /\ Meaningful(s) = <<>>

\* only whitespace (the empty line included)
WsOnly(s) == \A j \in 1..Len(s) : IsWs(s[j])

\* no junk at all, and empty or ending in whitespace
BlankEnded(s) == ~HasJunk(s) /\ (s = <<>> \/ IsWs(s[Len(s)]))

\* t is a followed by junk characters only
JunkAppended(a, t) ==
    /\ Len(t) >= Len(a)
    /\ SubSeq(t, 1, Len(a)) = a
    /\ \A j \in (Len(a) + 1)..Len(t) : IsJunk(t[j])

\* t is the offset at which the trailing junk/whitespace run of l begins
TrailingRunAt(l, t) ==
    /\ t < Len(l)
    /\ \A j \in (t + 1)..Len(l) : IsJunkOrWs(l[j])
    /\ t = 0 \/ ~IsJunkOrWs(l[t])

\* offset of the first junk character of l at or after offset t
FirstJunkOffset(l, t) == Min({j \in (t + 1)..Len(l) : IsJunk(l[j])}) - 1

Completed == pc = "done"

InputLines == StrLines(input)

OutputLines == StrLines(content)

\* format is between its split and its join: `lines` is the live vector
InPasses == pc \in {"collapse", "pass2", "pl_start", "pl_end", "pl_append",
                    "loop"}

\* this step of collapse_lines merges lines[index] into lines[index - 1]
Merging == pc = "collapse" /\ Len(lines') < Len(lines)

\* where the line at 1-based position i is after this step
PositionAfter(i) == IF Merging /\ i > index + 1 THEN i - 1 ELSE i

TypeOK ==
    /\ pc \in {"lines", "collapse", "pass2", "pl_start", "pl_end", "pl_append",
               "loop", "join", "done", "panic"}
    /\ failure \in {"none", "subtract_overflow", "index_out_of_bounds"}
    /\ calls \in {1, 2}
    /\ (pc \in {"pl_start", "pl_end", "pl_append", "loop"}) => idx < Len(lines)

(***************************************************************************)
(* C1.  format is total: whatever the buffer (the empty one included) and  *)
(* whatever junk_column, it never ends in a panic.                         *)
(***************************************************************************)
FormatIsTotal == pc # "panic"

(***************************************************************************)
(* C2.  Idempotence: when format completed on x and again on format(x),    *)
(* the second result is the first.                                         *)
(***************************************************************************)
FormatIdempotent == (Completed /\ calls = 2) => content = first_output

(***************************************************************************)
(* C3.  Junk-only line elimination: no line of the output but the first    *)
(* is made of junk and whitespace only with at least one junk character.   *)
(***************************************************************************)
NoJunkOnlyLine ==
    (Completed /\ calls = 1) =>
        \A i \in 2..Len(OutputLines) : ~JunkOnly(OutputLines[i])

(***************************************************************************)
(* C4.  Column invariant: in every output line whose trailing              *)
(* junk/whitespace run holds a junk character, the first junk character of *)
(* that run is at offset max(junk_column, offset where the run begins),    *)
(* hence at or after junk_column.                                          *)
(***************************************************************************)
ColumnInvariant ==
    Completed =>
        \A i \in 1..Len(OutputLines) : \A t \in 0..Len(OutputLines[i]) :
            LET l == OutputLines[i]
            IN (TrailingRunAt(l, t) /\ HasJunk(SubSeq(l, t + 1, Len(l)))) =>
                   /\ FirstJunkOffset(l, t) >= junk_column
                   /\ FirstJunkOffset(l, t) =
                          IF junk_column >= t THEN junk_column ELSE t

\* a completed call in which the first line took junk from the second by
\* backward propagation (no line was collapsed, no junk was lost)
ColumnInvariantWitness ==
    /\ Completed /\ calls = 1
    /\ Len(OutputLines) >= 2
    /\ Len(OutputLines) = Len(InputLines)
    /\ JunkOf(content) = JunkOf(input)
    /\ JunkOf(OutputLines[1]) # JunkOf(InputLines[1])
    /\ Meaningful(OutputLines[1]) # <<>>

(***************************************************************************)
(* C5.  No content loss: when format completes, the characters that are    *)
(* neither whitespace nor junk are the same, in the same order, in the     *)
(* output as in the input.                                                 *)
(***************************************************************************)
NoContentLoss == Completed => Meaningful(content) = Meaningful(input)

\* a completed call that collapsed a line and changed a buffer holding two
\* different meaningful characters
NoContentLossWitness ==
    /\ Completed /\ calls = 1
    /\ content # input
    /\ Len(lines) < Len(InputLines)
    /\ \E j, k \in 1..Len(Meaningful(input)) :
           Meaningful(input)[j] # Meaningful(input)[k]

(***************************************************************************)
(* C6.  Scenario 1 as stated: with junk_column = 120 the buffer            *)
(* "foo\n{\n" becomes "foo", 116 spaces, "{".                              *)
(***************************************************************************)
Scenario1AsStated ==
    (input = Scenario1Input /\ junk_column = DefaultJunkColumn
       /\ Completed /\ calls = 1) =>
        content = (<<"f", "o", "o">> \o [i \in 1..116 |-> " "]) \o <<"{">>

(***************************************************************************)
(* C6, amended.  With junk_column = 120 the buffer "foo\n{\n" becomes the  *)
(* single line "foo", 117 spaces, "{": the brace sits at offset 120.       *)
(***************************************************************************)
Scenario1 ==
    (input = Scenario1Input /\ junk_column = DefaultJunkColumn
       /\ Completed /\ calls = 1) =>
        /\ content = (<<"f", "o", "o">> \o [i \in 1..117 |-> " "]) \o <<"{">>
        /\ content[DefaultJunkColumn + 1] = "{"
        /\ Len(lines) = 1

Scenario1Witness ==
    /\ input = Scenario1Input /\ junk_column = DefaultJunkColumn
    /\ Completed /\ calls = 1

(***************************************************************************)
(* C7.  A whitespace-only line (the empty line included) is never merged   *)
(* into its predecessor and reaches the output unmodified, whatever lines  *)
(* follow it: no step of the two passes removes or changes it.             *)
(***************************************************************************)
BlankLineUntouched ==
    [][InPasses =>
         \A i \in 1..Len(lines) : WsOnly(lines[i]) =>
             /\ ~(Merging /\ i = index + 1)
             /\ lines'[PositionAfter(i)] = lines[i]]_vars

(***************************************************************************)
(* C7, amended.  A line without junk that is empty or ends in whitespace   *)
(* is never merged into its predecessor by collapse_lines and is not       *)
(* modified when pass 2 processes it; the only change it can undergo is    *)
(* junk appended to it from the line that follows it (by collapse_lines or *)
(* by backward propagation).                                               *)
(***************************************************************************)
BlankLineFrame ==
    [][InPasses =>
         \A i \in 1..Len(lines) : BlankEnded(lines[i]) =>
             /\ ~(Merging /\ i = index + 1)
             /\ JunkAppended(lines[i], lines'[PositionAfter(i)])
             /\ \/ lines'[PositionAfter(i)] = lines[i]
                \/ Merging /\ i = index
                \/ pc = "pl_append" /\ i = idx]_vars

\* a completed call whose second line, whitespace-only and not empty, was
\* examined by both passes with a line after it and came out as it went in
BlankLineFrameWitness ==
    /\ Completed /\ calls = 1
    /\ Len(lines) >= 3
    /\ Len(InputLines) = Len(lines)
    /\ lines[2] # <<>> /\ WsOnly(lines[2])
    /\ lines[2] = InputLines[2]

(***************************************************************************)
(* C8.  Junk is relocated, never dropped: when format completes, the       *)
(* sequence of junk characters of the output is that of the input.         *)
(***************************************************************************)
JunkRelocated == (Completed /\ calls = 1) => JunkOf(content) = JunkOf(input)

(***************************************************************************)
(* C9.  Leading extraction removes the whole matched leading run: after    *)
(* step 1 the line begins at its first character that is neither junk nor  *)
(* whitespace (or is empty).                                               *)
(***************************************************************************)
LeadingRunRemoved ==
    [][(pc = "pl_start" /\ StartMatches(lines[idx + 1])) =>
         \/ lines'[idx + 1] = <<>>
         \/ ~IsJunkOrWs(lines'[idx + 1][1])]_vars

(***************************************************************************)
(* C9, amended.  Leading extraction keeps the leading whitespace of the    *)
(* line and removes the junk/whitespace run that follows it: after step 1  *)
(* the line is its old leading whitespace followed by what began at its    *)
(* first character that is neither junk nor whitespace, and exactly the    *)
(* junk characters of the removed run are staged for the previous line.    *)
(***************************************************************************)
LeadingExtraction ==
    [][(pc = "pl_start" /\ StartMatches(lines[idx + 1])) =>
         LET old == lines[idx + 1]
             new == lines'[idx + 1]
             k == Min({j \in 0..Len(old) : j = Len(old) \/ ~IsWs(old[j + 1])})
         IN /\ k >= 1
            /\ Len(new) >= k
            /\ SubSeq(new, 1, k) = SubSeq(old, 1, k)
            /\ Len(new) > k => ~IsJunkOrWs(new[k + 1])
            /\ \E m \in (k + 1)..Len(old) :
                   /\ SubSeq(new, k + 1, Len(new)) = SubSeq(old, m + 1, Len(old))
                   /\ prev_line_modification' =
                          Some(JunkOf(SubSeq(old, k + 1, m)))
                   /\ JunkOnly(SubSeq(old, k + 1, m))]_vars

\* step 1 has just acted on a line after the first that keeps real content
LeadingExtractionWitness ==
    /\ pc = "pl_end"
    /\ idx >= 1
    /\ prev_line_modification # None
    /\ Meaningful(lines[idx + 1]) # <<>>
    /\ IsWs(lines[idx + 1][1])

(***************************************************************************)
(* C10.  Index safety of backward propagation: pass 2 appends staged junk  *)
(* only to a line that exists; with junk staged while processing index 0   *)
(* there is no line idx - 1.                                               *)
(***************************************************************************)
PropagationIndexSafe ==
    (pc = "pl_append" /\ prev_line_modification # None) => idx - 1 >= 0
====
